---- MODULE Spec2Model ----
(***************************************************************************)
(* Model of repositories/repository.go: endpoint resolution (getOllamaURL),*)
(* document ingestion (CreateDocument), similarity search                  *)
(* (SearchSimilarDocuments) and the pgvector text codec (vectorToString,   *)
(* parseVectorString).                                                     *)
(*                                                                         *)
(* Texts are sequences of one-character strings.  A float32 is a           *)
(* sign/magnitude decimal record [neg, whole, sub] standing for            *)
(* (-1)^neg * (whole + sub / SubPerOne): one decimal digit finer than the  *)
(* 6 fractional digits "%f" prints, so that formatting really rounds.      *)
(***************************************************************************)
EXTENDS Integers, Sequences, FiniteSets, TLC

VARIABLES env, provider, storage, doc, posted, stmts, ret,
          codecFrom, codecVec, codecText, codecOut, codecPc

vars == <<env, provider, storage, doc, posted, stmts, ret,
          codecFrom, codecVec, codecText, codecOut, codecPc>>

opVars == <<env, provider, storage, doc, posted, stmts, ret>>

codecVars == <<codecFrom, codecVec, codecText, codecOut, codecPc>>

(***************************************************************************)
(* Bounds of the model.                                                    *)
(***************************************************************************)
MaxVecLen == 2

MaxInterior == 5

MaxRows == 3

(***************************************************************************)
(* Numbers.                                                                *)
(***************************************************************************)
FracDigits == 6

SubPerMicro == 10

RECURSIVE Pow10(_)
Pow10(n) == IF n = 0 THEN 1 ELSE 10 * Pow10(n - 1)

MicroPerOne == Pow10(FracDigits)

SubPerOne == MicroPerOne * SubPerMicro

F32(neg, whole, sub) == [neg |-> neg, whole |-> whole, sub |-> sub]

Zero32 == F32(FALSE, 0, 0)

Digits == <<"0", "1", "2", "3", "4", "5", "6", "7", "8", "9">>

IsDigit(c) == \E i \in 1..10 : Digits[i] = c

DigitVal(c) == (CHOOSE i \in 1..10 : Digits[i] = c) - 1

DigitChar(d) == Digits[d + 1]

(***************************************************************************)
(* strings.Join(strValues, ",")                                            *)
(***************************************************************************)
RECURSIVE Join(_, _)
Join(strs, sep) ==
    IF Len(strs) = 0 THEN <<>>
    ELSE IF Len(strs) = 1 THEN strs[1]
    ELSE strs[1] \o sep \o Join(Tail(strs), sep)

(***************************************************************************)
(* fmt.Sprintf("%f", v): sign, integer digits, ".", exactly FracDigits     *)
(* fractional digits, the magnitude rounded half-to-even at the last one.  *)
(***************************************************************************)
RECURSIVE NatToStr(_)
NatToStr(n) ==
    IF n < 10 THEN <<DigitChar(n)>>
    ELSE NatToStr(n \div 10) \o <<DigitChar(n % 10)>>

\* Faulty variant: one fractional digit too few ("%.5f").
FracToStrShort(micro) ==
    [i \in 1..(FracDigits - 1) |-> DigitChar((micro \div Pow10(FracDigits - i)) % 10)]

FracToStr(micro) ==
    [i \in 1..FracDigits |-> DigitChar((micro \div Pow10(FracDigits - i)) % 10)]

RoundMicro(v) ==
    LET q == v.sub \div SubPerMicro
        r == v.sub % SubPerMicro
        up == \/ 2 * r > SubPerMicro
              \/ 2 * r = SubPerMicro /\ q % 2 = 1
        m == IF up THEN q + 1 ELSE q
    IN  IF m = MicroPerOne THEN [whole |-> v.whole + 1, micro |-> 0]
        ELSE [whole |-> v.whole, micro |-> m]

SprintfF(v) ==
    LET r == RoundMicro(v)
    IN  (IF v.neg THEN <<"-">> ELSE <<>>)
        \o NatToStr(r.whole) \o <<".">> \o FracToStr(r.micro)

vectorToString(embedding) ==
    LET strValues == [i \in 1..Len(embedding) |-> SprintfF(embedding[i])]
    IN  <<"[">> \o Join(strValues, <<",">>) \o <<"]">>

(***************************************************************************)
(* strings.Trim(s, "[]"), strings.TrimSpace, strings.Split(s, ",")         *)
(***************************************************************************)
RECURSIVE TrimLeft(_, _)
TrimLeft(s, cutset) ==
    IF Len(s) > 0 /\ s[1] \in cutset THEN TrimLeft(Tail(s), cutset) ELSE s

RECURSIVE TrimRight(_, _)
TrimRight(s, cutset) ==
    IF Len(s) > 0 /\ s[Len(s)] \in cutset
    THEN TrimRight(SubSeq(s, 1, Len(s) - 1), cutset)
    ELSE s

Trim(s, cutset) == TrimRight(TrimLeft(s, cutset), cutset)

TrimSpace(s) == Trim(s, {" "})

RECURSIVE SplitFrom(_, _, _)
SplitFrom(s, sep, cur) ==
    IF Len(s) = 0 THEN <<cur>>
    ELSE IF s[1] = sep THEN <<cur>> \o SplitFrom(Tail(s), sep, <<>>)
    ELSE SplitFrom(Tail(s), sep, Append(cur, s[1]))

Split(s, sep) == SplitFrom(s, sep, <<>>)

(***************************************************************************)
(* strconv.ParseFloat(s, 32) on decimal texts: optional sign, digits with  *)
(* at most one ".", at least one digit.  Anything else is a syntax error.  *)
(* Fractional digits beyond the grid of the model are dropped.             *)
(***************************************************************************)
RECURSIVE DigitsToNat(_)
DigitsToNat(s) ==
    IF Len(s) = 0 THEN 0
    ELSE 10 * DigitsToNat(SubSeq(s, 1, Len(s) - 1)) + DigitVal(s[Len(s)])

FracToSub(s) ==
    LET n == FracDigits + 1
        padded == [i \in 1..n |-> IF i <= Len(s) THEN s[i] ELSE "0"]
    IN  DigitsToNat(padded)

ParseFloat(s) ==
    LET signed == Len(s) > 0 /\ s[1] \in {"-", "+"}
        neg == signed /\ s[1] = "-"
        body == IF signed THEN Tail(s) ELSE s
        dots == {i \in 1..Len(body) : body[i] = "."}
        dot == IF dots = {} THEN Len(body) + 1 ELSE CHOOSE i \in dots : TRUE
        ip == SubSeq(body, 1, dot - 1)
        fp == SubSeq(body, dot + 1, Len(body))
        ok == /\ Cardinality(dots) <= 1
              /\ Len(ip) + Len(fp) > 0
              /\ \A i \in 1..Len(ip) : IsDigit(ip[i])
              /\ \A i \in 1..Len(fp) : IsDigit(fp[i])
    IN  IF ok THEN [err |-> FALSE, val |-> F32(neg, DigitsToNat(ip), FracToSub(fp))]
        ELSE [err |-> TRUE, val |-> Zero32]

\* Faulty variant: the token is parsed without trimming its surrounding whitespace.
ParseTokenUntrimmed(part) ==
    LET r == ParseFloat(part)
    IN  IF ~r.err THEN r.val ELSE Zero32

ParseToken(part) ==
    LET r == ParseFloat(TrimSpace(part))
    IN  IF ~r.err THEN r.val ELSE Zero32

parseVectorString(vectorSTR) ==
    LET trimmed == Trim(vectorSTR, {"[", "]"})
    IN  IF trimmed = <<>> THEN <<>>
        ELSE LET parts == Split(trimmed, ",")
             IN  [i \in 1..Len(parts) |-> ParseToken(parts[i])]

(***************************************************************************)
(* Process environment: os.Getenv returns "" for an unset variable,        *)
(* os.LookupEnv also reports whether the variable is present.              *)
(***************************************************************************)
Unset == [exists |-> FALSE, value |-> ""]

SetTo(v) == [exists |-> TRUE, value |-> v]

Getenv(e, key) == IF e[key].exists THEN e[key].value ELSE ""

LookupEnv(e, key) == e[key]

DockerDefault == "http://host.docker.internal:11434"

LocalDefault == "http://localhost:11434"

\* Faulty variant: the container marker is consulted before the override.
getOllamaURLMarkerFirst(e) ==
    LET ollamaURL == Getenv(e, "OLLAMA_URL")
    IN  IF LookupEnv(e, "DOCKER_CONTAINER").exists THEN DockerDefault
        ELSE IF ollamaURL # "" THEN ollamaURL
        ELSE LocalDefault

getOllamaURL(e) ==
    LET ollamaURL == Getenv(e, "OLLAMA_URL")
    IN  IF ollamaURL # "" THEN ollamaURL
        ELSE IF LookupEnv(e, "DOCKER_CONTAINER").exists THEN DockerDefault
        ELSE LocalDefault

Envs ==
    [OLLAMA_URL : {Unset, SetTo(""), SetTo("http://ollama.internal:9999")},
     DOCKER_CONTAINER : {Unset, SetTo(""), SetTo("true")}]

(***************************************************************************)
(* The embedding provider as CreateDocument sees it: whether http.Post     *)
(* connects, the status code, whether io.ReadAll can read the body, and    *)
(* the body.  A body is described by its JSON shape.                       *)
(***************************************************************************)
StatusOK == 200

Half == F32(FALSE, 0, 5000000)

Tenth == F32(FALSE, 0, 1000000)

BodyKinds == {"garbage", "array", "null", "noField", "fieldNull", "fieldString", "vector"}

Body(kind, emb) == [kind |-> kind, emb |-> emb]

Bodies ==
    {Body(k, <<>>) : k \in BodyKinds} \cup {Body("vector", <<Tenth, Half>>)}

Providers ==
    [connects : {FALSE}, status : {0}, readable : {FALSE}, body : {Body("garbage", <<>>)}]
    \cup [connects : {TRUE}, status : {StatusOK, 404, 500}, readable : BOOLEAN, body : Bodies]

(***************************************************************************)
(* json.Unmarshal(body, &ollamaResp) into struct{Embedding []float32}:     *)
(* text that is not JSON, a JSON value that is neither an object nor null, *)
(* and an embedding field that is not an array of numbers are errors; a    *)
(* JSON null, an object without the field and a null field leave the       *)
(* slice nil and report no error.                                          *)
(***************************************************************************)
\* Faulty variant: the error of json.Unmarshal is dropped.
UnmarshalErrorDropped(body) ==
    IF body.kind = "vector" THEN [err |-> FALSE, Embedding |-> body.emb]
    ELSE [err |-> FALSE, Embedding |-> <<>>]

Unmarshal(body) ==
    IF body.kind \in {"garbage", "array", "fieldString"}
    THEN [err |-> TRUE, Embedding |-> <<>>]
    ELSE IF body.kind = "vector" THEN [err |-> FALSE, Embedding |-> body.emb]
    ELSE [err |-> FALSE, Embedding |-> <<>>]

(***************************************************************************)
(* Storage as the two operations see it.                                   *)
(***************************************************************************)
NullString == [Valid |-> FALSE, String |-> ""]

ValidString(s) == [Valid |-> TRUE, String |-> s]

Nil == "nil"

TextGood == <<"[", "1", ".", "0", "0", "0", "0", "0", "0", ",", "2", ".", "0", "0", "0", "0", "0", "0", "]">>

TextBad == <<"[", "1", ".", "0", ",", "b", "a", "d", ",", "3", ".", "0", "]">>

TextNone == <<>>

EmbTexts == {TextGood, TextBad, TextNone}

Row(i, k) ==
    [id |-> i, content |-> "hello", media_type |-> ValidString("text/plain"),
     file_name |-> NullString, embedding |-> k.embedding, created_at |-> 100 + i,
     similarity |-> MaxRows + 1 - i, scanErr |-> k.scanErr]

RowKinds == [embedding : EmbTexts, scanErr : BOOLEAN]

RowSeqs ==
    UNION {{[i \in 1..n |-> Row(i, ks[i])] : ks \in [1..n -> RowKinds]} : n \in 0..MaxRows}

NewID == 7

Now == 1000

Storages ==
    [insertFails : BOOLEAN, queryFails : BOOLEAN, iterFails : BOOLEAN, rows : RowSeqs]

NewDoc ==
    [ID |-> 0, Content |-> "hello", MediaType |-> Nil, FileName |-> Nil,
     Embedding |-> <<>>, CreatedAt |-> 0]

Return(op, err, code, docs) == [op |-> op, err |-> err, code |-> code, docs |-> docs]

(***************************************************************************)
(* CreateDocument(db, doc): what one call does to the caller's document,   *)
(* which request it posts, which statements it issues and what it returns. *)
(* json.Marshal of a map[string]string cannot fail, so that return is      *)
(* unreachable and not modelled.                                           *)
(***************************************************************************)
InsertStmt(d, embeddingStr) ==
    [sql |-> "INSERT", content |-> d.Content, media_type |-> d.MediaType,
     file_name |-> d.FileName, embedding |-> embeddingStr]

CreateDocumentCall(e, p, st, d) ==
    LET endpoint == getOllamaURL(e) \o "/api/embeddings"
        req == [endpoint |-> endpoint, model |-> "nomic-embed-text", prompt |-> d.Content]
        fail(err, code) ==
            [posted |-> <<req>>, stmts |-> <<>>, doc |-> d,
             ret |-> Return("CreateDocument", err, code, <<>>)]
        r == Unmarshal(p.body)
        withEmb == [d EXCEPT !.Embedding = r.Embedding]
        ins == InsertStmt(withEmb, vectorToString(withEmb.Embedding))
    IN  IF ~p.connects THEN fail("connect", 0)
        ELSE IF ~p.readable THEN fail("read", 0)
        ELSE IF p.status # StatusOK THEN fail("status", p.status)
        ELSE IF r.err THEN fail("parse", 0)
        ELSE IF st.insertFails
        THEN [posted |-> <<req>>, stmts |-> <<ins>>, doc |-> withEmb,
              ret |-> Return("CreateDocument", "save", 0, <<>>)]
        ELSE [posted |-> <<req>>, stmts |-> <<ins>>,
              doc |-> [withEmb EXCEPT !.ID = NewID, !.CreatedAt = Now],
              ret |-> Return("CreateDocument", Nil, 0, <<>>)]

CreateDocument ==
    /\ posted = <<>>
    /\ LET c == CreateDocumentCall(env, provider, storage, doc)
       IN  /\ posted' = posted \o c.posted
           /\ stmts' = stmts \o c.stmts
           /\ doc' = c.doc
           /\ ret' = c.ret
    /\ UNCHANGED <<env, provider, storage, codecVars>>

(***************************************************************************)
(* SearchSimilarDocuments(db, queryEmbedding, limit).  storage.rows are    *)
(* the rows rows.Next() delivers before it returns false; storage.iterFails*)
(* tells whether it returned false on an error (rows.Err() # nil) rather   *)
(* than at the end of the result set.  The code never reads rows.Err().    *)
(***************************************************************************)
ScanDoc(row) ==
    [ID |-> row.id, Content |-> row.content,
     MediaType |-> IF row.media_type.Valid THEN row.media_type.String ELSE Nil,
     FileName |-> IF row.file_name.Valid THEN row.file_name.String ELSE Nil,
     Embedding |-> parseVectorString(row.embedding),
     CreatedAt |-> row.created_at]

\* Faulty variant: a scan error ends the loop (break instead of continue).
RECURSIVE ScanRowsBreak(_)
ScanRowsBreak(rows) ==
    IF rows = <<>> THEN <<>>
    ELSE IF Head(rows).scanErr THEN <<>>
    ELSE <<ScanDoc(Head(rows))>> \o ScanRowsBreak(Tail(rows))

\* Faulty variant: a row whose embedding decodes to nothing is left out.
RECURSIVE ScanRowsNonEmpty(_)
ScanRowsNonEmpty(rows) ==
    IF rows = <<>> THEN <<>>
    ELSE IF Head(rows).scanErr \/ parseVectorString(Head(rows).embedding) = <<>>
    THEN ScanRowsNonEmpty(Tail(rows))
    ELSE <<ScanDoc(Head(rows))>> \o ScanRowsNonEmpty(Tail(rows))

RECURSIVE ScanRows(_)
ScanRows(rows) ==
    IF rows = <<>> THEN <<>>
    ELSE IF Head(rows).scanErr THEN ScanRows(Tail(rows))
    ELSE <<ScanDoc(Head(rows))>> \o ScanRows(Tail(rows))

SelectStmt(queryEmbedding, limit) ==
    [sql |-> "SELECT", embedding |-> vectorToString(queryEmbedding), limit |-> limit]

SearchCall(st, queryEmbedding, limit) ==
    IF st.queryFails
    THEN [stmts |-> <<SelectStmt(queryEmbedding, limit)>>,
          ret |-> Return("SearchSimilarDocuments", "query", 0, <<>>)]
    ELSE [stmts |-> <<SelectStmt(queryEmbedding, limit)>>,
          ret |-> Return("SearchSimilarDocuments", Nil, 0, ScanRows(st.rows))]

Queries == {<<Half>>, <<Tenth, Half>>}

Searched == \E i \in 1..Len(stmts) : stmts[i].sql = "SELECT"

SearchSimilarDocuments ==
    /\ ~Searched
    /\ \E queryEmbedding \in Queries, limit \in 1..MaxRows :
          /\ Len(storage.rows) <= limit
          /\ LET c == SearchCall(storage, queryEmbedding, limit)
             IN  /\ stmts' = stmts \o c.stmts
                 /\ ret' = c.ret
    /\ UNCHANGED <<env, provider, storage, doc, posted, codecVars>>

(***************************************************************************)
(* The operations: the environment, the provider and the storage are drawn *)
(* at the start; each operation is called at most once, in either order.   *)
(***************************************************************************)
GoodProvider ==
    [connects |-> TRUE, status |-> StatusOK, readable |-> TRUE,
     body |-> Body("vector", <<Tenth, Half>>)]

IngestStorages == {st \in Storages : ~st.queryFails /\ ~st.iterFails /\ st.rows = <<>>}

SearchStorages == {st \in Storages : ~st.insertFails /\ (st.queryFails => st.rows = <<>> /\ ~st.iterFails)}

CodecIdle ==
    /\ codecFrom = "none"
    /\ codecVec = <<>>
    /\ codecText = <<>>
    /\ codecOut = <<>>
    /\ codecPc = "idle"

Init ==
    /\ env \in Envs
    /\ \/ provider \in Providers /\ storage \in IngestStorages
       \/ provider = GoodProvider /\ storage \in SearchStorages
    /\ doc = NewDoc
    /\ posted = <<>>
    /\ stmts = <<>>
    /\ ret = Return("none", Nil, 0, <<>>)
    /\ CodecIdle

Next == CreateDocument \/ SearchSimilarDocuments

Spec == Init /\ [][Next]_vars

(***************************************************************************)
(* The codec on its own: a vector to encode and decode back, or a          *)
(* bracketed text to decode.                                               *)
(***************************************************************************)
FloatPool ==
    {Zero32, F32(TRUE, 0, 0), F32(FALSE, 0, 5), F32(FALSE, 0, 15), F32(TRUE, 0, 4),
     F32(FALSE, 0, 1234567), F32(FALSE, 1, 9999995), F32(TRUE, 2, 5000000),
     F32(FALSE, 12, 3456784)}

Vectors == UNION {[1..n -> FloatPool] : n \in 0..MaxVecLen}

TextChars == {"1", "2", ".", ",", " ", "x", "[", "]"}

Texts == {<<"[">> \o t \o <<"]">> : t \in UNION {[1..n -> TextChars] : n \in 0..MaxInterior}}

OpsIdle ==
    /\ env = [OLLAMA_URL |-> Unset, DOCKER_CONTAINER |-> Unset]
    /\ provider = GoodProvider
    /\ storage = [insertFails |-> FALSE, queryFails |-> FALSE, iterFails |-> FALSE, rows |-> <<>>]
    /\ doc = NewDoc
    /\ posted = <<>>
    /\ stmts = <<>>
    /\ ret = Return("none", Nil, 0, <<>>)

InitCodec ==
    /\ OpsIdle
    /\ codecOut = <<>>
    /\ \/ codecFrom = "vector" /\ codecVec \in Vectors /\ codecText = <<>> /\ codecPc = "encode"
       \/ codecFrom = "text" /\ codecVec = <<>> /\ codecText \in Texts /\ codecPc = "decode"

Encode ==
    /\ codecPc = "encode"
    /\ codecText' = vectorToString(codecVec)
    /\ codecPc' = "decode"
    /\ UNCHANGED <<codecFrom, codecVec, codecOut, opVars>>

Decode ==
    /\ codecPc = "decode"
    /\ codecOut' = parseVectorString(codecText)
    /\ codecPc' = "done"
    /\ UNCHANGED <<codecFrom, codecVec, codecText, opVars>>

NextCodec == Encode \/ Decode

SpecCodec == InitCodec /\ [][NextCodec]_vars

(***************************************************************************)
(* Vocabulary of the properties.                                           *)
(***************************************************************************)
Sign(v) == IF v.neg THEN -1 ELSE 1

Within(a, b, tol) ==
    LET dw == Sign(a) * a.whole - Sign(b) * b.whole
        ds == Sign(a) * a.sub - Sign(b) * b.sub
        d == dw * SubPerOne + ds
    IN  /\ dw \in -1..1
        /\ d <= tol
        /\ -d <= tol

NumEq(a, b) == Within(a, b, 0)

Inserts == {i \in 1..Len(stmts) : stmts[i].sql = "INSERT"}

Created == ret.op = "CreateDocument"

SearchedLast == ret.op = "SearchSimilarDocuments"

BodyFailsToParse == provider.body.kind \in {"garbage", "array", "fieldString"}

EmbeddingFails ==
    \/ ~provider.connects
    \/ ~provider.readable
    \/ provider.status # 200
    \/ BodyFailsToParse

EmbeddingErrors == {"connect", "read", "status", "parse"}

\* Index in s of the k-th element of the set of indices idx.
Kth(idx, k) == CHOOSE i \in idx : Cardinality({c \in idx : c <= i}) = k

\* s without its leading and trailing characters from cutset.
Strip(s, cutset) ==
    LET keep == {i \in 1..Len(s) : s[i] \notin cutset}
    IN  IF keep = {} THEN <<>>
        ELSE SubSeq(s, CHOOSE i \in keep : \A j \in keep : i <= j,
                       CHOOSE i \in keep : \A j \in keep : j <= i)

\* The k-th comma-separated token of s.
Token(s, k) ==
    LET commas == {i \in 1..Len(s) : s[i] = ","}
        from == IF k = 1 THEN 1 ELSE Kth(commas, k - 1) + 1
        to == IF k = Cardinality(commas) + 1 THEN Len(s) ELSE Kth(commas, k) - 1
    IN  SubSeq(s, from, to)

TokenCount(s) == Cardinality({i \in 1..Len(s) : s[i] = ","}) + 1

TokenValue(tok) ==
    LET r == ParseFloat(Strip(tok, {" "}))
    IN  IF r.err THEN Zero32 ELSE r.val

\* v is the lenient decoding of the interior: one component per token.
IsLenientDecoding(v, interior) ==
    IF interior = <<>> THEN Len(v) = 0
    ELSE /\ Len(v) = TokenCount(interior)
         /\ \A k \in 1..Len(v) : NumEq(v[k], TokenValue(Token(interior, k)))

(***************************************************************************)
(* C1: whenever the embedding call fails (no connection, unreadable body,  *)
(* status other than 200, body that does not parse) CreateDocument returns *)
(* one of the embedding errors and issues no INSERT; an INSERT is issued   *)
(* only by a call whose embedding step succeeded.                          *)
(***************************************************************************)
C1_EmbeddingFailureIssuesNoInsert ==
    /\ (Created /\ EmbeddingFails) => ret.err \in EmbeddingErrors
    /\ EmbeddingFails => Inserts = {}
    /\ Inserts # {} => posted # <<>>

C1_Witness ==
    /\ Created
    /\ provider.connects /\ provider.readable /\ provider.status = 500
    /\ ret.err = "status"
    /\ Inserts = {}

(***************************************************************************)
(* C2: whenever CreateDocument returns an error, every field of the        *)
(* caller's document has the value it had before the call.                 *)
(***************************************************************************)
C2_DocumentUntouchedOnError ==
    (Created /\ ret.err # Nil) => doc = NewDoc

(***************************************************************************)
(* C3: a 200 response whose body is not a JSON object with an array field  *)
(* named embedding makes CreateDocument fail with the parse error and      *)
(* issue no INSERT; no INSERT ever carries the empty vector.               *)
(***************************************************************************)
C3_OtherShapeIsParseFailure ==
    /\ (/\ Created
        /\ provider.connects /\ provider.readable /\ provider.status = 200
        /\ provider.body.kind # "vector")
       => (ret.err = "parse" /\ Inserts = {})
    /\ \A i \in Inserts : stmts[i].embedding # <<"[", "]">>

(***************************************************************************)
(* C4 as stated: the endpoint CreateDocument posts to is the override      *)
(* whenever the override variable is set, else the container default when  *)
(* the marker is present, else the local default.                          *)
(***************************************************************************)
C4_OverrideWheneverSet ==
    posted # <<>> =>
        posted[1].endpoint =
            (IF env.OLLAMA_URL.exists THEN env.OLLAMA_URL.value
             ELSE IF env.DOCKER_CONTAINER.exists THEN DockerDefault
             ELSE LocalDefault) \o "/api/embeddings"

(***************************************************************************)
(* C4 amended: the endpoint is the override when the override variable is  *)
(* set to a non-empty value; when it is unset or empty, the container      *)
(* default if the marker is present (with any value), else the local       *)
(* default.                                                                *)
(***************************************************************************)
C4_EndpointPrecedence ==
    posted # <<>> =>
        posted[1].endpoint =
            (IF env.OLLAMA_URL.exists /\ env.OLLAMA_URL.value # "" THEN env.OLLAMA_URL.value
             ELSE IF env.DOCKER_CONTAINER.exists THEN DockerDefault
             ELSE LocalDefault) \o "/api/embeddings"

C4_Witness ==
    /\ posted # <<>>
    /\ env.OLLAMA_URL = SetTo("")
    /\ env.DOCKER_CONTAINER = SetTo("")
    /\ posted[1].endpoint = "http://host.docker.internal:11434/api/embeddings"

(***************************************************************************)
(* C5: when the query is issued successfully, the search returns no error  *)
(* and its list is exactly the delivered rows whose scan succeeded, in     *)
(* delivery order.                                                         *)
(***************************************************************************)
C5_ScanFailureSkipsOnlyThatRow ==
    (SearchedLast /\ ~storage.queryFails) =>
        LET ok == {i \in 1..Len(storage.rows) : ~storage.rows[i].scanErr}
        IN  /\ ret.err = Nil
            /\ Len(ret.docs) = Cardinality(ok)
            /\ \A j \in 1..Len(ret.docs) :
                  LET row == storage.rows[Kth(ok, j)]
                  IN  /\ ret.docs[j].ID = row.id
                      /\ ret.docs[j].Content = row.content
                      /\ ret.docs[j].CreatedAt = row.created_at

C5_Witness ==
    /\ SearchedLast
    /\ Len(storage.rows) = 3
    /\ ~storage.rows[1].scanErr /\ storage.rows[2].scanErr /\ ~storage.rows[3].scanErr
    /\ ret.err = Nil
    /\ Len(ret.docs) = 2
    /\ ret.docs[1].ID = 1 /\ ret.docs[2].ID = 3

(***************************************************************************)
(* C6: a storage failure during the search, at the query or while          *)
(* iterating the rows, makes the search return an error.                   *)
(***************************************************************************)
C6_StorageFailureIsReturned ==
    (SearchedLast /\ (storage.queryFails \/ storage.iterFails)) => ret.err # Nil

(***************************************************************************)
(* C7: whenever the provider answers with a status other than 200,         *)
(* CreateDocument fails with the status error carrying that status,        *)
(* whatever the body and whether or not it can be read.                    *)
(***************************************************************************)
C7_StatusErrorCarriesCode ==
    (Created /\ provider.connects /\ provider.status # 200) =>
        (ret.err = "status" /\ ret.code = provider.status)

(***************************************************************************)
(* C8: decoding the encoding of a vector gives a vector of the same length *)
(* whose components are within 1e-6 of the original ones, in order.        *)
(***************************************************************************)
C8_RoundTrip ==
    (codecFrom = "vector" /\ codecPc = "done") =>
        /\ Len(codecOut) = Len(codecVec)
        /\ \A i \in 1..Len(codecVec) : Within(codecOut[i], codecVec[i], SubPerMicro)

C8_Witness ==
    /\ codecFrom = "vector" /\ codecPc = "done"
    /\ codecVec = <<F32(FALSE, 1, 9999995), F32(FALSE, 0, 15)>>
    /\ codecOut = <<F32(FALSE, 2, 0), F32(FALSE, 0, 20)>>

(***************************************************************************)
(* C9 as stated: the interior of a bracketed text is what lies between its *)
(* first and its last character, and the decoded vector is the lenient     *)
(* decoding of that interior.                                              *)
(***************************************************************************)
C9_LenientDecodeBetweenBrackets ==
    (codecFrom = "text" /\ codecPc = "done") =>
        IsLenientDecoding(codecOut, SubSeq(codecText, 2, Len(codecText) - 1))

(***************************************************************************)
(* C9 amended: the interior is what remains of the text once every leading *)
(* and trailing bracket character is stripped; the decoded vector has one  *)
(* component per comma-separated token of the interior, 0.0 where the      *)
(* trimmed token does not parse and the parsed value elsewhere, and is     *)
(* empty for an empty interior.                                            *)
(***************************************************************************)
C9_LenientDecode ==
    (codecFrom = "text" /\ codecPc = "done") =>
        IsLenientDecoding(codecOut, Strip(codecText, {"[", "]"}))

C9_Witness ==
    /\ codecFrom = "text" /\ codecPc = "done"
    /\ codecText = <<"[", "1", ",", "x", ",", "2", "]">>
    /\ codecOut = <<F32(FALSE, 1, 0), Zero32, F32(FALSE, 2, 0)>>

(***************************************************************************)
(* C10: every delivered row that scans successfully is in the list the     *)
(* search returns, with the lenient decoding of its embedding text,        *)
(* whatever that text is.                                                  *)
(***************************************************************************)
C10_MalformedEmbeddingKept ==
    (SearchedLast /\ ~storage.queryFails) =>
        \A i \in 1..Len(storage.rows) :
            ~storage.rows[i].scanErr =>
                \E j \in 1..Len(ret.docs) :
                    /\ ret.docs[j].ID = storage.rows[i].id
                    /\ IsLenientDecoding(ret.docs[j].Embedding,
                                         Strip(storage.rows[i].embedding, {"[", "]"}))

C10_Witness ==
    /\ SearchedLast
    /\ Len(storage.rows) = 2
    /\ storage.rows[1].embedding = TextBad /\ ~storage.rows[1].scanErr
    /\ storage.rows[2].embedding = TextNone /\ ~storage.rows[2].scanErr
    /\ Len(ret.docs) = 2
    /\ ret.docs[1].Embedding = <<F32(FALSE, 1, 0), Zero32, F32(FALSE, 3, 0)>>
    /\ ret.docs[2].Embedding = <<>>

====
